---- MODULE Spec2Model ----
(***************************************************************************)
(* Model of the hand-history replay engine of hand_replayer.py:            *)
(*   - HandReplayer._extract_players      (roster building)                *)
(*   - HandReplayer._extract_all_actions  (street and action scan)         *)
(*   - HandReplayer.get_state_at_action   (replay state reconstruction)    *)
(*   - HandReplayer.parse_hand_for_replay (one call per hand of a batch,   *)
(*     the except clause and _extract_pot_info included)                   *)
(* and of the showdown flags of the statistics derivation, which follow    *)
(* the written specification of HeroAnalysisParser.                        *)
(*                                                                         *)
(* A hand text is read as a sequence of lines.  The roster pass sees the   *)
(* 'Seat N: name ($x in chips)' lines, the scan pass sees every other      *)
(* line; each Scan action handles one line the way the loop body does.     *)
(* get_state_at_action is modelled one loop iteration at a time, so that   *)
(* two calls can interleave.                                               *)
(* Money is counted in whole units (cents): the arithmetic of the model is *)
(* exact, the rounding of Python floats is not modelled.                   *)
(***************************************************************************)
EXTENDS Integers, Sequences, FiniteSets, TLC

(* ---- bounds of the explored inputs ---- *)
MaxPlayers == 2      \* seat lines per hand
MaxLines   == 4      \* lines of the hand body scanned before the summary
MaxSeats   == 7      \* seat numbers, and seat lines, of the position labelling
MaxHands   == 2      \* hands of one batch
MaxReplays == 2      \* parsed hands the replayer page can show
MaxReplayActions == 2   \* actions of a hand shown on the replayer page

(* ---- hand text lines ---- *)
NoMatch == 0 - 1     \* the amount pattern does not match the text
BadNum  == 0 - 2     \* the pattern matches a text float() rejects, e.g. '1.2.3'
Unbound == 0 - 1     \* a local variable that has not been assigned

FlopCards == <<"F1", "F2", "F3">>
TurnCard  == "T"
RiverCard == "R"

\* the branch of the if/elif chain a 'name: text' line falls into
AmountKinds == {"posts small blind", "posts big blind", "calls", "bets", "collected"}

Line(t, name, kw, amt, to, cards) ==
    [t |-> t, name |-> name, kw |-> kw, amt |-> amt, to |-> to, cards |-> cards]

\* '*** FLOP *** [..]' and the other section markers; cards: the line shows the cards
Marker(m, cards) == Line("marker", "", m, NoMatch, NoMatch, cards)
\* 'name: posts small blind $a', 'name: calls $a', 'name: folds', ...
Act(name, kw, amt) == Line("act", name, kw, amt, NoMatch, FALSE)
\* 'name: raises $a to $b'
Raise(name, amt, to) == Line("act", name, "raises", amt, to, FALSE)
\* 'Uncalled bet $a returned to name'
Uncalled(name, amt) == Line("uncalled", name, "", amt, NoMatch, FALSE)
\* a blank line, or a line without ':' and an action keyword
Other == Line("other", "", "", NoMatch, NoMatch, FALSE)
Summary == Marker("SUMMARY", FALSE)
\* '*** SUMMARY ***' followed by 'Total pot $a | Rake ...'
SummaryTotal(amt) == Line("marker", "", "SUMMARY", amt, NoMatch, FALSE)

\* starting stack written in the k-th seat line
SeatStack(seat) == 10 * seat

VARIABLES
    pc,             \* position in parse_hand_for_replay
    button_seat,    \* result of _extract_button_seat
    players,        \* List[PlayerState] built by _extract_players
    scanned,        \* lines consumed by the loop of _extract_all_actions
    current_street, pot_size, action_number, current_board, street_bets,
    total_raise,    \* locals of _extract_all_actions
    actions,        \* List[ActionStep]
    final_pot,      \* result of _extract_pot_info
    after_summary,  \* kinds of the text's lines from the summary marker on (history)
    printed,        \* 'Error parsing hand for replay' messages printed
    returned,       \* what the finished calls of parse_hand_for_replay returned
    stats,          \* the statistics derivation of one hand: what it has read, its result
    ctl,            \* per call of get_state_at_action: position, index, result
    acc,            \* per call frame: player_states, pot, current_street, board_cards
    text,           \* the lines of the hand text read so far, where kept (history)
    ui              \* st.session_state of the replayer page and the replays it can show

scanVars == <<scanned, current_street, pot_size, action_number, current_board,
              street_bets, total_raise, actions>>
outVars == <<final_pot, after_summary>>
parseVars == <<pc, button_seat, players, scanVars, outVars>>
batchVars == <<printed, returned>>
queryVars == <<ctl, acc>>
pageVars == <<text, ui>>
vars == <<parseVars, batchVars, stats, queryVars, pageVars>>

Slots == {1, 2}

(* ---- roster: _extract_players ---- *)
positions_6max == <<"Button", "Small Blind", "Big Blind", "UTG", "Hijack", "Cutoff">>
positions_9max == <<"Button", "SB", "BB", "UTG", "UTG+1", "MP", "MP+1", "HJ", "CO">>

Min(a, b) == IF a < b THEN a ELSE b

_calculate_position(seat, button, num_players) ==
    LET positions == IF num_players <= 6 THEN positions_6max ELSE positions_9max
        offset == (seat - button) % num_players
    IN positions[Min(offset, Len(positions) - 1) + 1]

PlayerState(name, seat, stack, position) ==
    [name |-> name, seat |-> seat, stack |-> stack, position |-> position,
     hole_cards |-> <<>>, is_hero |-> (name = "Hero"), cards_visible |-> FALSE]

\* next((p for p in players if p.name == player_name), None); 0 stands for None
FindPlayer(pls, name) ==
    IF \E i \in 1..Len(pls) : pls[i].name = name
    THEN CHOOSE i \in 1..Len(pls) :
            /\ pls[i].name = name
            /\ \A j \in 1..(i-1) : pls[j].name # name
    ELSE 0

RosterNames(pls) == { pls[i].name : i \in 1..Len(pls) }

\* {player.name: 0.0 for player in players}
ZeroBets(pls) == [n \in RosterNames(pls) |-> 0]

\* mixed: another call has taken a step since this call entered (history only)
IdleCtl == [pc |-> "idle", idx |-> 0, k |-> 0, result |-> <<>>, mixed |-> FALSE]
EmptyAcc == [ps |-> <<>>, pot |-> 0, street |-> "preflop", board |-> <<>>]

\* the statistics derivation before it has read a line of the hand
NoStats ==
    [pc |-> "read", n |-> 0, reached |-> FALSE, hero_folded |-> FALSE, shown |-> {},
     show_lines |-> 0, total_collected |-> 0,
     went_to_showdown |-> FALSE, won_at_showdown |-> FALSE]

\* the first call of parse_hand_for_replay, on a text whose button seat is in B
InitHand(B) ==
    /\ pc = "roster"
    /\ button_seat \in B
    /\ players = <<>>
    /\ scanned = 0
    /\ current_street = "preflop"
    /\ pot_size = 0
    /\ action_number = 0
    /\ current_board = <<>>
    /\ street_bets = << >>
    /\ total_raise = Unbound
    /\ actions = <<>>
    /\ final_pot = 0
    /\ after_summary = <<>>
    /\ printed = 0
    /\ returned = <<>>
    /\ stats = NoStats
    /\ ctl = [q \in Slots |-> IdleCtl]
    /\ acc = [q \in Slots |-> EmptyAcc]

\* the history of the text: not kept, or kept from the first line of each hand
NoText == [on |-> FALSE, lines |-> <<>>]
KeptText == [on |-> TRUE, lines |-> <<>>]

\* the text's line l has been read
Read(l) == text' = IF text.on THEN [text EXCEPT !.lines = Append(@, l)] ELSE text

\* st.session_state before the replayer page has run: no keys; no replay to show
NoSession ==
    [replays |-> <<>>, shown |-> 0, has_index |-> FALSE, action_index |-> 0,
     has_id |-> FALSE, current_hand_id |-> "", passed |-> 0]

\* no 'Seat #N is the button' line: the button seat defaults to 1
Init == InitHand({1}) /\ text = NoText /\ ui = NoSession

\* except Exception as e: print(f"Error parsing hand for replay: {e}")
Diagnostics(n, before, after) == IF after = "failed" /\ before # "failed" THEN n + 1 ELSE n

\* return HandReplay(...) at the end of the try block, return None in the handler
Returns(rs, before, after) ==
    IF after = before THEN rs
    ELSE CASE after = "done"   -> Append(rs, "HandReplay")
           [] after = "failed" -> Append(rs, "None")
           [] OTHER            -> rs

\* how a step of parse_hand_for_replay leaves the call: still running, returning
\* the HandReplay, or through the except clause
Outcome ==
    /\ printed' = Diagnostics(printed, pc, pc')
    /\ returned' = Returns(returned, pc, pc')
    /\ UNCHANGED <<stats, ui>>

\* one 'Seat N: name ($x in chips)' line of the roster pass, in a text of at most
\* max seat lines
SeatRow(name, seat, max) ==
    /\ pc = "roster"
    /\ Len(players) < max
    /\ players' = Append(players,
          PlayerState(name, seat, SeatStack(seat),
                      _calculate_position(seat, button_seat, Len(players) + 1)))
    /\ Read(Line("seat", name, "", seat, NoMatch, FALSE))
    /\ UNCHANGED <<pc, button_seat, scanVars, outVars, queryVars>>
    /\ Outcome

\* the seat lines of a text that numbers its seats 1, 2, ... in file order
SeatLine(name) == SeatRow(name, Len(players) + 1, MaxPlayers)

\* a 'Dealt to name [cards]' line of the hole cards section
Dealt(name, cards_str) == Line("dealt", name, cards_str, NoMatch, NoMatch, cards_str # "")

\* cards_str.split()
HoleCards(cards_str) ==
    CASE cards_str = "Ah Kd" -> <<"Ah", "Kd">>
      [] cards_str = "Qs Qc" -> <<"Qs", "Qc">>
      [] OTHER               -> <<>>

\* the roster after a 'Dealt to' line: the first player of that name takes the cards
\* when the brackets are not empty, and only Hero's become visible
DealtTo(pls, l) ==
    LET p == FindPlayer(pls, l.name)
    IN IF p = 0 \/ l.kw = "" THEN pls
       ELSE [pls EXCEPT ![p].hole_cards = HoleCards(l.kw),
                        ![p].cards_visible = @ \/ pls[p].is_hero]

\* the second pass of _extract_players reads a 'Dealt to' line; the pass over the
\* seat lines has ended
DealtLine(l) ==
    /\ pc \in {"roster", "cards"}
    /\ l.t = "dealt"
    /\ pc' = "cards"
    /\ players' = DealtTo(players, l)
    /\ Read(l)
    /\ UNCHANGED <<button_seat, scanVars, outVars, queryVars>>
    /\ Outcome

\* mutant: the name keeps the value an earlier call gave it
FrameLocalKept(old) == old

\* a name the new frame of a call has not assigned yet: unbound, whatever value it
\* had in the frame of an earlier call
FrameLocal(old) == Unbound

\* mutant: the list of an earlier call is used again
NewListKept(old) == old

\* actions = []: a new list in every call, whatever list an earlier call built
NewList(old) == <<>>

\* _extract_all_actions starts: fresh accumulators
StartScan ==
    /\ pc \in {"roster", "cards"}
    /\ pc' = "scan"
    /\ scanned' = 0
    /\ current_street' = "preflop"
    /\ pot_size' = 0
    /\ action_number' = 0
    /\ current_board' = <<>>
    /\ street_bets' = ZeroBets(players)
    /\ total_raise' = FrameLocal(total_raise)
    /\ actions' = NewList(actions)
    /\ UNCHANGED <<button_seat, players, outVars, queryVars, text>>
    /\ Outcome

(* ---- _extract_all_actions: the body of the loop, for one line ---- *)
StreetOfMarker(m) ==
    CASE m = "FLOP"     -> "flop"
      [] m = "TURN"     -> "turn"
      [] m = "RIVER"    -> "river"
      [] m = "SHOWDOWN" -> "showdown"

\* the board after a street marker line
BoardAfterMarker(board, m, cards) ==
    CASE m = "FLOP"  -> IF cards THEN FlopCards ELSE board
      [] m = "TURN"  -> IF cards THEN Append(board, TurnCard) ELSE board
      [] m = "RIVER" -> IF cards THEN Append(board, RiverCard) ELSE board
      [] OTHER       -> board

\* mutant: the commitments are carried over to the new street
BetsAfterMarkerKept(bets, pls, m) == bets

\* street_bets after a marker line: FLOP, TURN and RIVER reset it, SHOWDOWN does not
BetsAfterMarker(bets, pls, m) ==
    IF m = "SHOWDOWN" THEN bets ELSE ZeroBets(pls)

\* mutant: a line that fits no branch is taken as a check
ActionTypeOfDefaultCheck(kw) ==
    CASE kw \in {"posts small blind", "posts big blind"} -> "post"
      [] kw = "folds"     -> "fold"
      [] kw = "calls"     -> "call"
      [] kw = "raises"    -> "raise"
      [] kw = "bets"      -> "bet"
      [] kw = "collected" -> "collect"
      [] OTHER            -> "check"

ActionTypeOf(kw) ==
    CASE kw \in {"posts small blind", "posts big blind"} -> "post"
      [] kw = "folds"     -> "fold"
      [] kw = "calls"     -> "call"
      [] kw = "raises"    -> "raise"
      [] kw = "bets"      -> "bet"
      [] kw = "checks"    -> "check"
      [] kw = "collected" -> "collect"
      [] OTHER            -> "unknown"

\* the raise pattern 'raises $A to $B' matches
RaiseMatches(l) == l.amt # NoMatch /\ l.to # NoMatch

\* the amount pattern of the line's branch matches
AmountMatches(l) ==
    IF l.kw = "raises" THEN RaiseMatches(l) ELSE l.kw \in AmountKinds /\ l.amt # NoMatch

\* float() raises ValueError on a matched number text
RaisesValueError(l) ==
    \/ l.t = "act" /\ AmountMatches(l) /\ (l.amt = BadNum \/ l.to = BadNum)
    \/ l.t = "uncalled" /\ l.amt = BadNum

\* amount of the action: 0.0 unless the amount pattern matches
AmountOf(l) == IF AmountMatches(l) THEN l.amt ELSE 0

\* the description of a raise reads total_raise, assigned only when the pattern matches
RaisesUnboundLocal(l, tr) == l.kw = "raises" /\ ~RaiseMatches(l) /\ tr = Unbound

\* street_bets after the action line of a rostered player
BetsAfter(bets, l) ==
    IF ~AmountMatches(l) THEN bets
    ELSE CASE l.kw \in {"posts small blind", "posts big blind", "bets"} ->
                  [bets EXCEPT ![l.name] = l.amt]
           [] l.kw = "calls"  -> [bets EXCEPT ![l.name] = @ + l.amt]
           [] l.kw = "raises" -> [bets EXCEPT ![l.name] = l.to]
           [] OTHER -> bets

\* mutant: a raise adds the amount raised to
PotAfterRaiseTo(pot, l) ==
    IF AmountMatches(l) /\ l.kw # "collected"
    THEN pot + (IF l.kw = "raises" THEN l.to ELSE l.amt)
    ELSE pot

\* mutant: a payout is taken out of the pot
PotAfterPayout(pot, l) ==
    IF AmountMatches(l) THEN (IF l.kw = "collected" THEN pot - l.amt ELSE pot + l.amt)
    ELSE pot

\* pot_size after the action line of a rostered player ('collected' leaves it alone)
PotAfter(pot, l) ==
    IF AmountMatches(l) /\ l.kw # "collected" THEN pot + l.amt ELSE pot

\* mutant: pot_before taken after the amount was added
PotBeforeNotSubtracted(pot, amount) == pot

\* pot_before=pot_size - amount if amount > 0 else pot_size
PotBefore(pot, amount) == IF amount > 0 THEN pot - amount ELSE pot

\* pot_size after an uncalled bet line
PotAfterReturn(pot, amount) == pot - amount

DescriptionOf(l, tr) ==
    CASE l.kw = "raises" -> <<"raises to", tr>>
      [] l.kw \in AmountKinds -> <<l.kw, AmountOf(l)>>
      [] OTHER -> <<l.kw, 0>>

ActionStep(num, street, player, seat, type, amount, total_bet, before, after, descr, board) ==
    [action_number |-> num, street |-> street, player |-> player, seat |-> seat,
     action_type |-> type, amount |-> amount, total_bet |-> total_bet,
     pot_before |-> before, pot_after |-> after, description |-> descr,
     board_cards |-> board]

\* mutant: the counter is not advanced
NextActionNumberStuck(n) == n

\* action_number += 1
NextActionNumber(n) == n + 1

\* mutant: the records hold the board list itself, so the append of a turn or river
\* card shows in every record made since the list was bound
SnapshotsAliased(acts, board, after) ==
    [k \in 1..Len(acts) |->
        IF acts[k].board_cards = board /\ Len(after) = Len(board) + 1
        THEN [acts[k] EXCEPT !.board_cards = after]
        ELSE acts[k]]

\* board_cards=current_board.copy(): a record holds its own list, which the later
\* current_board.append(..) and current_board = [..] do not reach
SnapshotsAfterMarker(acts, board, after) == acts

\* a street marker line
ScanMarker(l) ==
    /\ pc = "scan" /\ scanned < MaxLines
    /\ l.t = "marker" /\ l.kw # "SUMMARY"
    /\ scanned' = scanned + 1
    /\ current_street' = StreetOfMarker(l.kw)
    /\ current_board' = BoardAfterMarker(current_board, l.kw, l.cards)
    /\ street_bets' = BetsAfterMarker(street_bets, players, l.kw)
    /\ actions' = SnapshotsAfterMarker(actions, current_board, current_board')
    /\ Read(l)
    /\ UNCHANGED <<pc, button_seat, players, pot_size, action_number, total_raise,
                   outVars, queryVars>>
    /\ Outcome

\* mutant: the summary marker is skipped like any other line and the loop goes on
LoopAfterSummaryContinues == "scan"

\* elif '*** SUMMARY ***' in line: break
LoopAfterSummary == "done"

\* a local of _extract_all_actions once the loop has gone to position at: it has
\* its value while the loop runs and is gone when the function has returned
LocalAt(at, value, gone) == IF at = "scan" THEN value ELSE gone

\* float() raises ValueError on the text the 'Total pot' pattern matched
PotInfoValueError(l) == l.amt = BadNum

\* pot = 0.0, replaced by the number after 'Total pot $' when the pattern matches
PotInfo(l) == IF l.amt = NoMatch THEN 0 ELSE l.amt

\* the summary marker with the summary section: the loop ends without looking at
\* the line, the function returns the actions and _extract_pot_info reads the total
ScanSummary(l) ==
    /\ pc = "scan"
    /\ l.t = "marker" /\ l.kw = "SUMMARY"
    /\ after_summary' = <<l.t>>
    /\ LET at == LoopAfterSummary
       IN /\ pc' = IF at = "done" /\ PotInfoValueError(l) THEN "failed" ELSE at
          /\ final_pot' = IF at = "done" /\ ~PotInfoValueError(l) THEN PotInfo(l)
                          ELSE final_pot
          /\ scanned' = LocalAt(at, scanned, 0)
          /\ current_street' = LocalAt(at, current_street, "preflop")
          /\ action_number' = LocalAt(at, action_number, 0)
          /\ current_board' = LocalAt(at, current_board, <<>>)
          /\ street_bets' = LocalAt(at, street_bets, << >>)
          /\ total_raise' = LocalAt(at, total_raise, Unbound)
    /\ Read(l)
    /\ UNCHANGED <<button_seat, players, pot_size, actions, queryVars>>
    /\ Outcome

\* a line of the text after the summary marker: the loop has ended, nothing reads it
TailLine(l) ==
    /\ pc = "done"
    /\ after_summary # <<>> /\ Len(after_summary) < MaxLines
    /\ after_summary' = Append(after_summary, l.t)
    /\ Read(l)
    /\ UNCHANGED <<pc, button_seat, players, scanVars, final_pot, queryVars>>
    /\ Outcome

\* a 'name: text' line
ScanAction(l) ==
    /\ pc = "scan" /\ scanned < MaxLines
    /\ l.t = "act"
    /\ scanned' = scanned + 1
    /\ LET p == FindPlayer(players, l.name)
           type == ActionTypeOf(l.kw)
       IN IF p = 0 \/ type = "unknown"
          THEN UNCHANGED <<pc, button_seat, players, current_street, pot_size,
                           action_number, current_board, street_bets, total_raise,
                           actions>>
          ELSE IF RaisesValueError(l) \/ RaisesUnboundLocal(l, total_raise)
          THEN /\ pc' = "failed"
               /\ UNCHANGED <<button_seat, players, current_street, pot_size,
                              action_number, current_board, street_bets, total_raise,
                              actions>>
          ELSE LET amount == AmountOf(l)
                   bets == BetsAfter(street_bets, l)
                   pot == PotAfter(pot_size, l)
                   tr == IF l.kw = "raises" /\ RaiseMatches(l) THEN l.to ELSE total_raise
                   num == NextActionNumber(action_number)
               IN /\ street_bets' = bets
                  /\ pot_size' = pot
                  /\ total_raise' = tr
                  /\ action_number' = num
                  /\ actions' = Append(actions,
                        ActionStep(num, current_street, l.name,
                                   players[p].seat, type, amount, bets[l.name],
                                   PotBefore(pot, amount), pot,
                                   DescriptionOf(l, tr), current_board))
                  /\ UNCHANGED <<pc, button_seat, players, current_street, current_board>>
    /\ Read(l)
    /\ UNCHANGED <<outVars, queryVars>>
    /\ Outcome

\* an 'Uncalled bet $A returned to name' line
ScanUncalled(l) ==
    /\ pc = "scan" /\ scanned < MaxLines
    /\ l.t = "uncalled"
    /\ scanned' = scanned + 1
    /\ IF l.amt = NoMatch
       THEN UNCHANGED <<pc, pot_size, action_number, actions>>
       ELSE IF RaisesValueError(l)
       THEN /\ pc' = "failed"
            /\ UNCHANGED <<pot_size, action_number, actions>>
       ELSE LET p == FindPlayer(players, l.name)
                pot == PotAfterReturn(pot_size, l.amt)
                num == NextActionNumber(action_number)
            IN /\ pot_size' = pot
               /\ IF p # 0
                  THEN /\ action_number' = num
                       /\ actions' = Append(actions,
                             ActionStep(num, current_street, l.name,
                                        players[p].seat, "return", l.amt, 0,
                                        pot + l.amt, pot,
                                        <<"uncalled bet returned", l.amt>>, current_board))
                  ELSE UNCHANGED <<action_number, actions>>
               /\ UNCHANGED pc
    /\ UNCHANGED <<button_seat, players, current_street, current_board,
                   street_bets, total_raise, outVars, queryVars>>
    /\ Read(l)
    /\ Outcome

\* any other line: blank, or neither an action line nor an uncalled bet line
ScanOther(l) ==
    /\ pc = "scan" /\ scanned < MaxLines
    /\ l.t = "other"
    /\ scanned' = scanned + 1
    /\ UNCHANGED <<pc, button_seat, players, current_street, pot_size, action_number,
                   current_board, street_bets, total_raise, actions, outVars,
                   queryVars>>
    /\ Read(l)
    /\ Outcome

ScanLine(l) ==
    \/ ScanMarker(l)
    \/ ScanSummary(l)
    \/ ScanAction(l)
    \/ ScanUncalled(l)
    \/ ScanOther(l)

\* the next hand of the batch: a new call of parse_hand_for_replay on the same
\* HandReplayer; the frames of the call before are gone
NextHand ==
    /\ pc \in {"done", "failed"}
    /\ Len(returned) < MaxHands
    /\ pc' = "roster"
    /\ players' = <<>>
    /\ scanned' = 0
    /\ current_street' = "preflop"
    /\ pot_size' = 0
    /\ action_number' = 0
    /\ current_board' = <<>>
    /\ street_bets' = << >>
    /\ total_raise' = FrameLocal(total_raise)
    /\ actions' = NewList(actions)
    /\ final_pot' = 0
    /\ after_summary' = <<>>
    /\ ctl' = [q \in Slots |-> IdleCtl]
    /\ acc' = [q \in Slots |-> EmptyAcc]
    /\ text' = [text EXCEPT !.lines = <<>>]
    /\ UNCHANGED <<button_seat, batchVars, stats, ui>>

\* parse_hand_for_replay over hands whose seat lines name SN and whose body lines are in L
ParseNext(SN, L) ==
    \/ \E n \in SN : SeatLine(n)
    \/ StartScan
    \/ \E l \in L : ScanLine(l)

(* ---- get_state_at_action ---- *)
\* mutant: the dict shows the cards of whoever has cards
PlayerEntryShowsAll(p) ==
    [name |-> p.name, seat |-> p.seat, position |-> p.position, stack |-> p.stack,
     current_bet |-> 0, total_invested |-> 0, is_active |-> TRUE, is_hero |-> p.is_hero,
     hole_cards |-> p.hole_cards, cards_visible |-> p.hole_cards # <<>>]

\* the dict built for one player of the roster
PlayerEntry(p) ==
    [name |-> p.name, seat |-> p.seat, position |-> p.position, stack |-> p.stack,
     current_bet |-> 0, total_invested |-> 0, is_active |-> TRUE, is_hero |-> p.is_hero,
     hole_cards |-> IF p.is_hero THEN p.hole_cards ELSE <<>>,
     cards_visible |-> p.is_hero]

\* position of the entry of a name in player_states, 0 when the name is no key
KeyIndex(ps, name) ==
    IF \E j \in 1..Len(ps) : ps[j].name = name
    THEN CHOOSE j \in 1..Len(ps) : ps[j].name = name
    ELSE 0

\* player_states[name] = entry: an existing key keeps its place and takes the new value
DictSet(ps, entry) ==
    IF KeyIndex(ps, entry.name) = 0
    THEN Append(ps, entry)
    ELSE [ps EXCEPT ![KeyIndex(ps, entry.name)] = entry]

\* player_states after the first n players of the roster, in insertion order
RECURSIVE InitPlayerStates(_, _)
InitPlayerStates(pls, n) ==
    IF n = 0 THEN <<>>
    ELSE DictSet(InitPlayerStates(pls, n - 1), PlayerEntry(pls[n]))

InitAcc(pls) ==
    [ps |-> InitPlayerStates(pls, Len(pls)), pot |-> 0, street |-> "preflop",
     board |-> <<>>]

\* mutant: an uncalled bet that comes back is not added to the stack
ApplyToPlayerNoReturn(e, a) ==
    CASE a.action_type = "fold" -> [e EXCEPT !.is_active = FALSE]
      [] a.action_type \in {"call", "bet", "raise", "post"} ->
            [e EXCEPT !.stack = @ - a.amount,
                      !.current_bet = a.total_bet,
                      !.total_invested = @ + a.amount]
      [] a.action_type = "collect" -> [e EXCEPT !.stack = @ + a.amount]
      [] OTHER -> e

\* mutant: a player who puts chips in is active again
ApplyToPlayerReactivates(e, a) ==
    CASE a.action_type = "fold" -> [e EXCEPT !.is_active = FALSE]
      [] a.action_type \in {"call", "bet", "raise", "post"} ->
            [e EXCEPT !.stack = @ - a.amount,
                      !.current_bet = a.total_bet,
                      !.total_invested = @ + a.amount,
                      !.is_active = TRUE]
      [] a.action_type \in {"collect", "return"} -> [e EXCEPT !.stack = @ + a.amount]
      [] OTHER -> e

\* the effect of one action on the acting player's entry
ApplyToPlayer(e, a) ==
    CASE a.action_type = "fold" -> [e EXCEPT !.is_active = FALSE]
      [] a.action_type \in {"call", "bet", "raise", "post"} ->
            [e EXCEPT !.stack = @ - a.amount,
                      !.current_bet = a.total_bet,
                      !.total_invested = @ + a.amount]
      [] a.action_type \in {"collect", "return"} -> [e EXCEPT !.stack = @ + a.amount]
      [] OTHER -> e

\* mutant: the pot of the snapshot is the pot before the action
ApplyActionPotBefore(st, a) ==
    [ps |-> [st.ps EXCEPT ![KeyIndex(st.ps, a.player)] = ApplyToPlayer(@, a)],
     pot |-> a.pot_before, street |-> a.street, board |-> a.board_cards]

\* one iteration of the loop over replay.actions
ApplyAction(st, a) ==
    [ps |-> [st.ps EXCEPT ![KeyIndex(st.ps, a.player)] = ApplyToPlayer(@, a)],
     pot |-> a.pot_after, street |-> a.street, board |-> a.board_cards]

\* mutant: the loop writes the stack into the PlayerState of the replay
ReplayPlayersWritten(pls, a) ==
    IF a.action_type \in {"call", "bet", "raise", "post"}
    THEN [pls EXCEPT ![FindPlayer(pls, a.player)].stack = @ - a.amount]
    ELSE pls

\* replay.players after an iteration: the loop writes to the dicts of the call only
ReplayPlayersAfter(pls, a) == pls

\* mutant: the accumulators are kept in one place shared by all calls
FrameShared(q) == 1

\* the frame holding the locals of call q: every call has its own
Frame(q) == q

\* replay.actions[action_index] raises IndexError: a negative index counts from the
\* end of the list and is out of range below -len
IndexError(acts, i) == i < Len(acts) /\ i < 0 /\ Len(acts) + i < 0

\* replay.actions[action_index] if action_index < len(replay.actions) else None
CurrentAction(acts, i) ==
    IF i >= Len(acts) THEN <<>>
    ELSE IF i >= 0 THEN <<acts[i + 1]>>
    ELSE <<acts[Len(acts) + i + 1]>>

Snapshot(st, acts, i) ==
    [players |-> st.ps, pot |-> st.pot, street |-> st.street,
     board_cards |-> st.board, current_action |-> CurrentAction(acts, i),
     action_index |-> i, total_actions |-> Len(acts)]

\* the indices asked for: in range, and out of range on both sides
QIndices(acts) == (0 - 1) .. (Len(acts) + 1)

\* the control records after call q takes a step: the other running calls are marked
Stepped(c, q) ==
    [o \in Slots |-> IF o # q /\ c[o].pc = "loop" THEN [c[o] EXCEPT !.mixed = TRUE]
                     ELSE c[o]]

\* a call of get_state_at_action(replay, i) enters and initialises its locals
QStart(q, i) ==
    /\ pc = "done"
    /\ ctl[q].pc # "loop"
    /\ ctl' = Stepped([ctl EXCEPT ![q] = [pc |-> "loop", idx |-> i, k |-> 0,
                                          result |-> <<>>, mixed |-> FALSE]], q)
    /\ acc' = [acc EXCEPT ![Frame(q)] = InitAcc(players)]
    /\ UNCHANGED parseVars

\* one iteration of 'for i, action in enumerate(replay.actions)'
QStep(q) ==
    /\ pc = "done"
    /\ ctl[q].pc = "loop"
    /\ ctl[q].k < Len(actions) /\ ctl[q].k < ctl[q].idx
    /\ LET a == actions[ctl[q].k + 1]
       IN /\ acc' = [acc EXCEPT ![Frame(q)] = ApplyAction(@, a)]
          /\ players' = ReplayPlayersAfter(players, a)
    /\ ctl' = Stepped([ctl EXCEPT ![q].k = @ + 1], q)
    /\ UNCHANGED <<pc, button_seat, scanVars, outVars>>

\* the loop is left; current_action is read and the snapshot returned
QReturn(q) ==
    /\ pc = "done"
    /\ ctl[q].pc = "loop"
    /\ ~(ctl[q].k < Len(actions) /\ ctl[q].k < ctl[q].idx)
    /\ IF IndexError(actions, ctl[q].idx)
       THEN ctl' = Stepped([ctl EXCEPT ![q].pc = "raised"], q)
       ELSE ctl' = Stepped([ctl EXCEPT ![q].pc = "ret",
                               ![q].result = <<Snapshot(acc[Frame(q)], actions, ctl[q].idx)>>], q)
    /\ UNCHANGED <<acc, parseVars>>

\* calls of get_state_at_action in the slots S on the parsed hand
QueryNext(S) ==
    /\ \E q \in S :
          \/ \E i \in QIndices(actions) : QStart(q, i)
          \/ QStep(q)
          \/ QReturn(q)
    /\ UNCHANGED <<batchVars, stats, pageVars>>

\* get_state_at_action run alone, from entry to return
RECURSIVE ReplayTo(_, _, _)
ReplayTo(pls, acts, n) ==
    IF n = 0 THEN InitAcc(pls)
    ELSE ApplyAction(ReplayTo(pls, acts, n - 1), acts[n])

get_state_at_action(pls, acts, i) ==
    Snapshot(ReplayTo(pls, acts, IF i < 0 THEN 0 ELSE Min(i, Len(acts))), acts, i)

(* ---- the line sets of the specifications ---- *)
\* every action kind, for the pot bookkeeping and the numbering
PotLines ==
    { Act("Hero", "posts small blind", 1), Act("Hero", "posts big blind", 2),
      Act("Hero", "folds", NoMatch), Act("Hero", "checks", NoMatch),
      Act("Hero", "calls", 1), Act("Hero", "calls", NoMatch), Act("Hero", "bets", 2),
      Act("Hero", "bets", BadNum), Raise("Hero", 1, 2), Raise("Hero", NoMatch, NoMatch),
      Act("Hero", "collected", 2), Act("Hero", "collected", 0),
      Act("Hero", "unknown", NoMatch), Act("V", "bets", 1),
      Uncalled("Hero", 1), Uncalled("V", 1), Uncalled("Hero", NoMatch),
      Marker("FLOP", TRUE), Summary, Other }

\* every street marker, in any order
StreetLines ==
    { Marker("FLOP", TRUE), Marker("TURN", TRUE), Marker("RIVER", TRUE),
      Marker("TURN", FALSE), Marker("SHOWDOWN", FALSE),
      Act("Hero", "checks", NoMatch), Act("Hero", "bets", 1),
      Uncalled("Hero", 1), Summary, Other }

\* hands to replay: two players, contributions, payouts, a fold, a street change
ReplayLines ==
    { Act("Hero", "posts small blind", 1), Raise("V", 2, 3),
      Act("V", "folds", NoMatch), Act("Hero", "collected", 4),
      Uncalled("V", 1), Marker("FLOP", TRUE), Summary, Other }

\* hands for two interleaved calls
ConcLines ==
    { Act("Hero", "posts small blind", 1), Act("Hero", "folds", NoMatch),
      Uncalled("Hero", NoMatch), Marker("FLOP", TRUE), Summary, Other }

Next == ParseNext({"Hero"}, PotLines)
Spec == Init /\ [][Next]_vars

NextStreet == ParseNext({"Hero"}, StreetLines)
SpecStreet == Init /\ [][NextStreet]_vars

NextReplay == ParseNext({"Hero", "V"}, ReplayLines) \/ QueryNext({1})
SpecReplay == Init /\ [][NextReplay]_vars

NextConc == ParseNext({"Hero"}, ConcLines) \/ QueryNext(Slots)
SpecConc == Init /\ [][NextConc]_vars

(* ---- hands with a 'Total pot' in the summary ---- *)
\* the totals the summary sections show
TotalPots == {6, 7, 8}

\* blinds, a raise over the big blind, a raise by the big blind, a call, a fold, a
\* return, a street; every line is one the scan recognises
TotalLines ==
    { Act("Hero", "posts small blind", 1), Act("V", "posts big blind", 2),
      Raise("Hero", 2, 4), Raise("V", 2, 4), Act("V", "calls", 2),
      Act("Hero", "calls", 1), Act("V", "folds", NoMatch), Uncalled("Hero", 2),
      Marker("FLOP", TRUE), Other }
    \cup { SummaryTotal(t) : t \in TotalPots }

NextTotal == ParseNext({"Hero", "V"}, TotalLines)
SpecTotal == Init /\ [][NextTotal]_vars

(* ---- hands with text after the summary marker ---- *)
SummaryLines ==
    { Act("Hero", "bets", 1), Act("Hero", "collected", 1), Uncalled("Hero", 1),
      Marker("FLOP", TRUE), Summary, Other }

NextSummary ==
    \/ ParseNext({"Hero"}, SummaryLines)
    \/ \E l \in SummaryLines : TailLine(l)
SpecSummary == Init /\ [][NextSummary]_vars

(* ---- hands with commitments on several streets ---- *)
CommitLines ==
    { Act("Hero", "posts big blind", 2), Act("Hero", "calls", 1),
      Act("Hero", "checks", NoMatch), Act("Hero", "folds", NoMatch),
      Act("Hero", "bets", 2), Uncalled("Hero", 1),
      Marker("FLOP", TRUE), Marker("TURN", TRUE), Marker("RIVER", TRUE),
      Marker("SHOWDOWN", FALSE), Summary, Other }

NextCommit == ParseNext({"Hero"}, CommitLines)
SpecCommit == Init /\ [][NextCommit]_vars

(* ---- statistics derivation: the showdown flags of a hand ---- *)
\* 'name: shows [..]' in the showdown text, 'Seat N: name showed [..]' in the summary
Shows(name) == Act(name, "shows", NoMatch)
Showed(name) == Line("seat", name, "showed", NoMatch, NoMatch, TRUE)

\* the derivation reads one line of the hand
StatLine(l) ==
    /\ stats.pc = "read" /\ stats.n < MaxLines
    /\ stats' =
          [stats EXCEPT
             !.n = @ + 1,
             !.reached = @ \/ (l.t = "marker" /\ l.kw = "SHOWDOWN"),
             !.hero_folded = @ \/ (l.name = "Hero" /\ l.kw = "folds" /\ ~stats.reached),
             !.shown = IF l.kw \in {"shows", "showed"} THEN @ \cup {l.name} ELSE @,
             !.show_lines = IF l.kw \in {"shows", "showed"} THEN @ + 1 ELSE @,
             !.total_collected = IF l.name = "Hero" /\ l.kw = "collected" /\ l.amt > 0
                                 THEN @ + l.amt ELSE @]
    /\ UNCHANGED <<parseVars, batchVars, queryVars, pageVars>>

\* mutant: the lines that show cards are counted, not the players
DetectByShowLines(st) == st.show_lines >= 2

\* at least two players' hole cards were revealed in the showdown or summary text
detect_multi_player_showdown(st) == Cardinality(st.shown) >= 2

\* the hand reached the showdown and Hero did not fold before
went_to_showdown(st) == st.reached /\ ~st.hero_folded

won_at_showdown(st) ==
    went_to_showdown(st) /\ detect_multi_player_showdown(st) /\ st.total_collected > 0

\* the flags of the DerivedStats record are computed
DeriveStats ==
    /\ stats.pc = "read"
    /\ stats' = [stats EXCEPT !.pc = "derived",
                              !.went_to_showdown = went_to_showdown(stats),
                              !.won_at_showdown = won_at_showdown(stats)]
    /\ UNCHANGED <<parseVars, batchVars, queryVars, pageVars>>

ShowdownLines ==
    { Marker("SHOWDOWN", FALSE), Act("Hero", "folds", NoMatch), Shows("Hero"),
      Shows("V"), Showed("Hero"), Act("Hero", "collected", 1), Act("V", "collected", 1),
      Other }

NextShowdown == (\E l \in ShowdownLines : StatLine(l)) \/ DeriveStats
SpecShowdown == Init /\ [][NextShowdown]_vars

(* ---- a batch of hands, some of which fail ---- *)
BatchLines ==
    { Raise("Hero", 1, 2), Raise("Hero", NoMatch, NoMatch), Act("Hero", "bets", BadNum),
      Act("Hero", "folds", NoMatch), Uncalled("Hero", 1), Uncalled("Hero", BadNum),
      Marker("FLOP", TRUE), Summary, SummaryTotal(BadNum), Other }

NextBatch == ParseNext({"Hero"}, BatchLines) \/ NextHand
SpecBatch == Init /\ [][NextBatch]_vars

(* ---- parse_hand_for_replay as a function of the text, on a new HandReplayer ---- *)
\* _extract_players over the seat lines among the first n lines
RECURSIVE RosterOf(_, _, _)
RosterOf(button, lines, n) ==
    IF n = 0 THEN <<>>
    ELSE LET pls == RosterOf(button, lines, n - 1)
             l == lines[n]
         IN IF l.t = "seat"
            THEN Append(pls, PlayerState(l.name, l.amt, SeatStack(l.amt),
                                         _calculate_position(l.amt, button, Len(pls) + 1)))
            ELSE pls

\* the second pass of _extract_players over the first n lines
RECURSIVE DealtOf(_, _, _)
DealtOf(pls, lines, n) ==
    IF n = 0 THEN pls
    ELSE LET before == DealtOf(pls, lines, n - 1)
         IN IF lines[n].t = "dealt" THEN DealtTo(before, lines[n]) ELSE before

\* the locals of _extract_all_actions before the first line
ScanStart(pls) ==
    [pc |-> "scan", current_street |-> "preflop", pot_size |-> 0, action_number |-> 0,
     current_board |-> <<>>, street_bets |-> ZeroBets(pls), total_raise |-> Unbound,
     actions |-> <<>>, final_pot |-> 0]

\* the body of the loop for the line l, and the end of the call at the summary marker
ScanStep(pls, st, l) ==
    IF st.pc # "scan" \/ l.t \in {"seat", "dealt", "other"} THEN st
    ELSE IF l.t = "marker" /\ l.kw = "SUMMARY"
    THEN IF PotInfoValueError(l) THEN [st EXCEPT !.pc = "failed"]
         ELSE [st EXCEPT !.pc = "done", !.final_pot = PotInfo(l)]
    ELSE IF l.t = "marker"
    THEN [st EXCEPT !.current_street = StreetOfMarker(l.kw),
                    !.current_board = BoardAfterMarker(@, l.kw, l.cards),
                    !.street_bets = BetsAfterMarker(@, pls, l.kw)]
    ELSE IF l.t = "act"
    THEN LET p == FindPlayer(pls, l.name)
             type == ActionTypeOf(l.kw)
         IN IF p = 0 \/ type = "unknown" THEN st
            ELSE IF RaisesValueError(l) \/ RaisesUnboundLocal(l, st.total_raise)
            THEN [st EXCEPT !.pc = "failed"]
            ELSE LET bets == BetsAfter(st.street_bets, l)
                     pot == PotAfter(st.pot_size, l)
                     tr == IF l.kw = "raises" /\ RaiseMatches(l) THEN l.to
                           ELSE st.total_raise
                     num == NextActionNumber(st.action_number)
                 IN [st EXCEPT !.street_bets = bets, !.pot_size = pot,
                               !.total_raise = tr, !.action_number = num,
                               !.actions = Append(@,
                                  ActionStep(num, st.current_street, l.name,
                                             pls[p].seat, type, AmountOf(l), bets[l.name],
                                             PotBefore(pot, AmountOf(l)), pot,
                                             DescriptionOf(l, tr), st.current_board))]
    ELSE IF l.amt = NoMatch THEN st
    ELSE IF RaisesValueError(l) THEN [st EXCEPT !.pc = "failed"]
    ELSE LET p == FindPlayer(pls, l.name)
             pot == PotAfterReturn(st.pot_size, l.amt)
             num == NextActionNumber(st.action_number)
         IN IF p = 0 THEN [st EXCEPT !.pot_size = pot]
            ELSE [st EXCEPT !.pot_size = pot, !.action_number = num,
                            !.actions = Append(@,
                               ActionStep(num, st.current_street, l.name, pls[p].seat,
                                          "return", l.amt, 0, pot + l.amt, pot,
                                          <<"uncalled bet returned", l.amt>>,
                                          st.current_board))]

\* the scan over the first n lines of the text
RECURSIVE ScanOf(_, _, _)
ScanOf(pls, lines, n) ==
    IF n = 0 THEN ScanStart(pls)
    ELSE ScanStep(pls, ScanOf(pls, lines, n - 1), lines[n])

\* the call on a text, from entry to where the last of its lines leaves it
ParseOf(button, lines) ==
    LET pls == DealtOf(RosterOf(button, lines, Len(lines)), lines, Len(lines))
    IN [players |-> pls, scan |-> ScanOf(pls, lines, Len(lines))]

\* a batch whose texts are kept, to compare each call with the call on a new instance
InitFresh == InitHand({1}) /\ text = KeptText /\ ui = NoSession
SpecFresh == InitFresh /\ [][NextBatch]_vars

(* ---- hole cards: 'Dealt to' lines for Hero, an opponent and a stranger ---- *)
DealtLines ==
    { Dealt("Hero", "Ah Kd"), Dealt("Hero", ""), Dealt("V", "Qs Qc"), Dealt("X", "Ah Kd") }

CardLines ==
    { Act("Hero", "bets", 1), Act("V", "folds", NoMatch), Uncalled("Hero", 1),
      Marker("FLOP", TRUE), Summary, Other }

NextCards ==
    \/ ParseNext({"Hero", "V"}, CardLines)
    \/ \E l \in DealtLines : DealtLine(l)
    \/ QueryNext({1})
SpecCards == Init /\ [][NextCards]_vars

(* ---- lines to skip: a text after the colon that is no action, a stranger's action ---- *)
SkipLines ==
    { Act("Hero", "unknown", NoMatch), Act("Hero", "posts the ante", 1),
      Act("V", "bets", 1), Act("Hero", "bets", 1), Uncalled("Hero", 1),
      Marker("FLOP", TRUE), Summary, Other }

NextSkip == ParseNext({"Hero"}, SkipLines)
SpecSkip == InitFresh /\ [][NextSkip]_vars

(* ---- render_hand_replayer: the replayer page and its controls ---- *)
\* results of _extract_hand_id: the token after 'Poker Hand #', "" when the text has none
HandIds == {"", "HD1", "HD2"}

\* what the page reads of a HandReplay: hand_id and len(replay.actions)
Replays == [hand_id : HandIds, n : 0..MaxReplayActions]

\* the parsed hands the page can be asked to show: different hands, so no two share
\* a hand id that was found in the text
ReplayLists ==
    { rs \in [1..MaxReplays -> Replays] :
         \A i, j \in 1..MaxReplays :
            i # j /\ rs[i].hand_id = rs[j].hand_id => rs[i].hand_id = "" }

\* mutant: the index is kept when the hand changes
IndexAfterSwitchKept(s, r) == IF s.has_index THEN s.action_index ELSE 0

\* action_index after the first two ifs: 0 when the key is missing, and 0 when
\* current_hand_id is missing or differs from replay.hand_id
IndexAfterSwitch(s, r) ==
    IF ~s.has_index \/ ~s.has_id \/ s.current_hand_id # r.hand_id THEN 0
    ELSE s.action_index

\* mutant: the index is not held to the length of the hand
ClampNone(i, n) == i

\* if action_index > len(replay.actions): action_index = len(replay.actions)
Clamp(i, n) == IF i > n THEN n ELSE i

\* a run of the page on the replay r, down to the call of get_state_at_action
Rendered(s, r) ==
    LET i == Clamp(IndexAfterSwitch(s, r), r.n)
    IN [s EXCEPT !.has_index = TRUE, !.has_id = TRUE, !.current_hand_id = r.hand_id,
                 !.action_index = i, !.passed = i]

Shown == ui.replays[ui.shown]

\* the page is run on the hand h of the list: the first hand shown, or another one
ShowHand(h) ==
    /\ h \in 1..Len(ui.replays)
    /\ h # ui.shown
    /\ ui' = Rendered([ui EXCEPT !.shown = h], ui.replays[h])
    /\ UNCHANGED <<parseVars, batchVars, stats, queryVars, text>>

\* a control sets the index to i and reruns the page on the same hand
Rerun(i) ==
    /\ ui' = Rendered([ui EXCEPT !.action_index = i], Shown)
    /\ UNCHANGED <<parseVars, batchVars, stats, queryVars, text>>

ButtonStart == ui.shown # 0 /\ Rerun(0)

ButtonPrevious ==
    /\ ui.shown # 0
    /\ IF ui.action_index > 0 THEN Rerun(ui.action_index - 1) ELSE UNCHANGED vars

ButtonNext ==
    /\ ui.shown # 0
    /\ IF ui.action_index < Shown.n THEN Rerun(ui.action_index + 1) ELSE UNCHANGED vars

ButtonEnd == ui.shown # 0 /\ Rerun(Shown.n)

\* st.slider("Action", 0, len(replay.actions), action_index) returns another value
SliderMove(v) ==
    /\ ui.shown # 0
    /\ v \in 0..Shown.n /\ v # ui.action_index
    /\ Rerun(v)

InitPage ==
    /\ InitHand({1}) /\ text = NoText
    /\ \E rs \in ReplayLists : ui = [NoSession EXCEPT !.replays = rs]

NextPage ==
    \/ \E h \in 1..MaxReplays : ShowHand(h)
    \/ ButtonStart
    \/ ButtonPrevious
    \/ ButtonNext
    \/ ButtonEnd
    \/ \E v \in 0..MaxReplayActions : SliderMove(v)
SpecPage == InitPage /\ [][NextPage]_vars

(* ---- position labelling: rosters of up to MaxSeats players, any button seat ---- *)
\* the player names of the seat lines, one per seat number
SeatNames == <<"P1", "P2", "P3", "P4", "P5", "P6", "P7", "P8", "P9">>

SeatsTaken(pls) == { pls[i].seat : i \in 1..Len(pls) }

\* a seat line for a seat number the text has not used yet, seat lines in any order
SeatAt(seat) ==
    /\ seat \notin SeatsTaken(players)
    /\ SeatRow(SeatNames[seat], seat, MaxSeats)

InitRoster == InitHand(1..MaxSeats) /\ text = NoText /\ ui = NoSession
NextRoster ==
    \/ \E seat \in 1..MaxSeats : SeatAt(seat)
    \/ StartScan
SpecRoster == InitRoster /\ [][NextRoster]_vars

(* ======================= the claims ======================= *)
Contributing == {"post", "call", "bet", "raise"}

StreetRank(st) ==
    CASE st = "preflop"  -> 0
      [] st = "flop"     -> 1
      [] st = "turn"     -> 2
      [] st = "river"    -> 3
      [] st = "showdown" -> 4

\* sum of the amounts of the first n actions that name the player and have a type in types
RECURSIVE SumAmounts(_, _, _, _)
SumAmounts(acts, n, name, types) ==
    IF n = 0 THEN 0
    ELSE SumAmounts(acts, n - 1, name, types)
         + (IF acts[n].player = name /\ acts[n].action_type \in types
            THEN acts[n].amount ELSE 0)

\* call 1 has returned a snapshot
Returned == pc = "done" /\ ctl[1].pc = "ret"
Snap == ctl[1].result[1]
InRange == 0 <= ctl[1].idx /\ ctl[1].idx <= Len(actions)

\* C1: every ActionStep of type post, call, bet or raise has pot_after = pot_before +
\* amount, every return has pot_after = pot_before - amount, every fold and check has
\* pot_after = pot_before.
C1_PotArithmetic ==
    \A k \in 1..Len(actions) :
        LET a == actions[k]
        IN /\ a.action_type \in Contributing => a.pot_after = a.pot_before + a.amount
           /\ a.action_type = "return" => a.pot_after = a.pot_before - a.amount
           /\ a.action_type \in {"fold", "check"} => a.pot_after = a.pot_before

\* a hand with a contribution into a pot that is not empty, a return and a fold or check
C1_Witness ==
    /\ \E k \in 1..Len(actions) :
          actions[k].action_type \in Contributing /\ actions[k].amount > 0
          /\ actions[k].pot_before > 0
    /\ \E k \in 1..Len(actions) :
          actions[k].action_type = "return" /\ actions[k].amount > 0
    /\ \E k \in 1..Len(actions) :
          actions[k].action_type \in {"fold", "check"} /\ actions[k].pot_before > 0

\* C2: the k-th ActionStep of the action list has action_number k, for keyword actions
\* and return events alike.
C2_ActionNumbers ==
    \A k \in 1..Len(actions) : actions[k].action_number = k

\* a scan that skipped a line and recorded a return and a keyword action
C2_Witness ==
    /\ pc = "scan" /\ scanned > Len(actions) /\ Len(actions) >= 3
    /\ \E k \in 1..Len(actions) : actions[k].action_type = "return"
    /\ \E k \in 1..Len(actions) : actions[k].action_type # "return"

\* C3: the street tags of the action list never decrease in the order
\* preflop < flop < turn < river < showdown, whatever marker lines the text has.
C3_StreetsNonDecreasing ==
    \A j, k \in 1..Len(actions) :
        j < k => StreetRank(actions[j].street) <= StreetRank(actions[k].street)

\* C4: the snapshot at index 0 reports every roster player with the starting stack,
\* current_bet 0, total_invested 0 and is_active true, and pot 0, street preflop and an
\* empty board.
C4_InitialSnapshot ==
    (Returned /\ ctl[1].idx = 0) =>
        /\ Snap.pot = 0 /\ Snap.street = "preflop" /\ Snap.board_cards = <<>>
        /\ \A p \in 1..Len(players) :
              \E j \in 1..Len(Snap.players) :
                 LET e == Snap.players[j]
                 IN /\ e.name = players[p].name
                    /\ e.stack = players[p].stack
                    /\ e.current_bet = 0 /\ e.total_invested = 0 /\ e.is_active

\* C5: the snapshot at index i, 0 <= i <= N, reports for every roster player
\* total_invested = the sum of the player's post/call/bet/raise amounts before i,
\* stack = starting stack - total_invested + the player's collect and return amounts
\* before i, and is_active false iff the player has a fold before i.
C5_ForwardScan ==
    (Returned /\ InRange) =>
        \A p \in 1..Len(players) :
           \E j \in 1..Len(Snap.players) :
              LET e == Snap.players[j]
                  i == ctl[1].idx
                  invested == SumAmounts(actions, i, e.name, Contributing)
                  paid == SumAmounts(actions, i, e.name, {"collect", "return"})
              IN /\ e.name = players[p].name
                 /\ e.total_invested = invested
                 /\ e.stack = players[p].stack - invested + paid
                 /\ e.is_active = ~(\E k \in 1..i : /\ actions[k].player = e.name
                                                    /\ actions[k].action_type = "fold")

\* C6: in the snapshot at index i a player who has contributed nothing on the
\* snapshot's current street has current_bet 0.
C6_CurrentStreetBet ==
    (Returned /\ InRange) =>
        \A j \in 1..Len(Snap.players) :
           LET e == Snap.players[j]
           IN (~ \E k \in 1..ctl[1].idx :
                    /\ actions[k].player = e.name
                    /\ actions[k].action_type \in Contributing
                    /\ actions[k].street = Snap.street)
              => e.current_bet = 0

\* C7: for 1 <= i <= N the pot, street and board of the snapshot at index i are
\* pot_after, street and board_cards of action i (the last one before index i); at
\* i = N every action has been applied and current_action is absent.
C7_PotStreetBoard ==
    (Returned /\ 1 <= ctl[1].idx /\ ctl[1].idx <= Len(actions)) =>
        LET i == ctl[1].idx
        IN /\ Snap.pot = actions[i].pot_after
           /\ Snap.street = actions[i].street
           /\ Snap.board_cards = actions[i].board_cards
           /\ i = Len(actions) => (Snap.current_action = <<>> /\ ctl[1].k = Len(actions))
           /\ i < Len(actions) => Snap.current_action = <<actions[i + 1]>>

\* the final state of a hand of three actions that ends on the flop with a pot
C7_Witness ==
    /\ Returned /\ ctl[1].idx = Len(actions) /\ Len(actions) >= 3
    /\ Snap.pot > 0 /\ Snap.street = "flop" /\ Snap.board_cards = FlopCards

\* C8: two calls with the same index return the same snapshot, whatever calls were
\* made before and between them, and no step of a call changes the players or the
\* actions of the HandReplay.
C8_Idempotent ==
    /\ [](  (pc = "done" /\ ctl[1].pc = "ret" /\ ctl[2].pc = "ret"
             /\ ctl[1].idx = ctl[2].idx)
          => ctl[1].result = ctl[2].result)
    /\ [][pc = "done" => (players' = players /\ actions' = actions)]_vars

\* both calls have returned the snapshot of the same index after applied actions
C8_Witness ==
    /\ pc = "done" /\ ctl[1].pc = "ret" /\ ctl[2].pc = "ret"
    /\ ctl[1].idx = ctl[2].idx /\ ctl[1].idx >= 2 /\ Len(actions) >= 2
    /\ ctl[1].result[1].pot > 0

\* C9: a call whose steps interleave with another call's returns the snapshot the
\* call returns when it runs alone.
C9_Reentrant ==
    \A q \in Slots :
        (pc = "done" /\ ctl[q].pc = "ret") =>
            ctl[q].result[1] = get_state_at_action(players, actions, ctl[q].idx)

\* a call has returned after steps of a call at another index ran between its own
C9_Witness ==
    \E q, o \in Slots :
        /\ pc = "done" /\ ctl[q].pc = "ret" /\ ctl[q].mixed /\ ctl[q].idx >= 2
        /\ Len(actions) >= 2
        /\ ctl[o].pc \in {"loop", "ret"} /\ ctl[o].mixed
        /\ ctl[o].idx # ctl[q].idx /\ ctl[o].k >= 1

\* C10: a call with an index below 0 or above the number of actions returns no
\* snapshot.
C10_OutOfRangeFails ==
    Returned => InRange

(* ---- position labels ---- *)
Range(f) == { f[i] : i \in 1..Len(f) }

\* the roster is complete and seats 1..n are taken, with the button on one of them
SeatedOneTo(n) ==
    /\ pc = "scan" /\ Len(players) = n
    /\ SeatsTaken(players) = 1..n
    /\ button_seat \in 1..n

\* C11: with n <= 6 players in seats 1..n and button seat b, the player at seat s has
\* entry ((s - b) mod n) of the 6-max sequence, n being the number of seated players.
C11_PositionLabels ==
    \A n \in 1..6 :
        SeatedOneTo(n) =>
            \A i \in 1..n :
                players[i].position = positions_6max[((players[i].seat - button_seat) % n) + 1]

\* C15: all players of a hand have labels of one sequence, chosen by the number of
\* seated players: the 6-position sequence up to 6 players, the 9-position one above.
C15_OneLabelSequence ==
    pc = "scan" =>
        LET labels == { players[i].position : i \in 1..Len(players) }
        IN IF Len(players) <= 6 THEN labels \subseteq Range(positions_6max)
           ELSE labels \subseteq Range(positions_9max)

(* ---- the total pot ---- *)
\* what the player of action k had committed on the street before the action
CommittedBefore(acts, k) ==
    LET earlier == { j \in 1..(k - 1) : /\ acts[j].player = acts[k].player
                                        /\ acts[j].street = acts[k].street
                                        /\ acts[j].action_type # "return" }
    IN IF earlier = {} THEN 0
       ELSE acts[CHOOSE j \in earlier : \A i \in earlier : i <= j].total_bet

\* the chips the first n actions moved into the pot: a raise 'to $B' moves B less
\* what the player had committed, a return moves its amount out
RECURSIVE ChipsIn(_, _)
ChipsIn(acts, n) ==
    IF n = 0 THEN 0
    ELSE ChipsIn(acts, n - 1)
         + CASE acts[n].action_type \in {"post", "call", "bet"} -> acts[n].amount
             [] acts[n].action_type = "raise" ->
                   acts[n].total_bet - CommittedBefore(acts, n)
             [] acts[n].action_type = "return" -> 0 - acts[n].amount
             [] OTHER -> 0

\* every acting player of the text is in the roster, and the summary shows the
\* chips that went into the pot
WellFormedHand ==
    /\ pc = "done" /\ Len(actions) >= 1
    /\ \A l \in TotalLines : l.t \in {"act", "uncalled"} => l.name \in RosterNames(players)
    /\ final_pot = ChipsIn(actions, Len(actions))

\* C12: for a well-formed hand pot_after of the last ActionStep is the final_pot
\* extracted from the summary.
C12_LastPotIsFinalPot ==
    WellFormedHand => actions[Len(actions)].pot_after = final_pot

(* ---- batches ---- *)
\* the locals of _extract_all_actions as a call that is the first one finds them
FreshScan ==
    /\ current_street = "preflop" /\ pot_size = 0 /\ action_number = 0
    /\ current_board = <<>> /\ total_raise = Unbound /\ actions = <<>>
    /\ street_bets = ZeroBets(players)

NoneReturned == { k \in 1..Len(returned) : returned[k] = "None" }

\* C13: every call ends by returning a HandReplay or, after a diagnostic, None, and
\* a call that follows a failed one starts from what the first call of a batch
\* starts from: nothing of the failed hand is left.
C13_FailedHandIsolated ==
    /\ [](pc \in {"roster", "scan", "done", "failed"})
    /\ [](printed = Cardinality(NoneReturned))
    /\ [](pc = "failed" => (returned # <<>> /\ returned[Len(returned)] = "None"))
    /\ [](pc = "done" => (returned # <<>> /\ returned[Len(returned)] = "HandReplay"))
    /\ []((pc = "scan" /\ scanned = 0) => FreshScan)
    /\ [][(pc \in {"done", "failed"} /\ pc' = "roster") =>
            (players' = <<>> /\ total_raise' = Unbound /\ actions' = <<>>
             /\ final_pot' = 0)]_vars

\* a hand parsed to a HandReplay with an action after a hand of the batch failed
C13_Witness ==
    /\ pc = "done" /\ Len(actions) >= 1 /\ Len(returned) = 2
    /\ returned[1] = "None" /\ printed = 1

(* ---- showdown statistics ---- *)
Derived == stats.pc = "derived"

\* C14: won_at_showdown is true iff the hand went to showdown, at least two players'
\* hole cards were revealed and Hero collected more than zero; a showdown in which
\* one player shows never counts, even if Hero collected chips.
C14_WonAtShowdown ==
    Derived =>
        /\ stats.won_at_showdown <=>
              (stats.went_to_showdown /\ Cardinality(stats.shown) >= 2
               /\ stats.total_collected > 0)
        /\ (Cardinality(stats.shown) < 2) => ~stats.won_at_showdown

\* Hero alone shows, in the showdown text and again in the summary, and collects
C14_Witness ==
    /\ Derived /\ stats.went_to_showdown /\ stats.total_collected > 0
    /\ stats.shown = {"Hero"} /\ stats.show_lines >= 2
    /\ ~stats.won_at_showdown

(* ---- the effect of single lines ---- *)
Last(acts) == acts[Len(acts)]

\* the step appends one ActionStep
OneRecorded == Len(actions') = Len(actions) + 1

\* C16: a line 'name: raises $A to $B' of a rostered player sets the player's street
\* commitment to B and adds exactly A to the running pot, whatever the player had
\* committed; the ActionStep has amount A, total_bet B, pot_after = pot_before + A.
C16_RaiseAddsLiteral ==
    [][\A l \in TotalLines :
          (l.kw = "raises" /\ RaiseMatches(l) /\ l.name \in RosterNames(players)
           /\ ScanAction(l))
          => /\ street_bets'[l.name] = l.to
             /\ pot_size' = pot_size + l.amt
             /\ OneRecorded
             /\ Last(actions').action_type = "raise"
             /\ Last(actions').player = l.name
             /\ Last(actions').amount = l.amt
             /\ Last(actions').total_bet = l.to
             /\ Last(actions').pot_before = pot_size
             /\ Last(actions').pot_after = pot_size + l.amt]_vars

\* a raise was recorded for a player who had chips committed, so that the chips the
\* raise moves (B less the commitment) are not the literal A
C16_Witness ==
    /\ pc = "scan" /\ Len(actions) >= 2
    /\ Last(actions).action_type = "raise" /\ Last(actions).pot_before > 0
    /\ CommittedBefore(actions, Len(actions)) > 0
    /\ Last(actions).total_bet - CommittedBefore(actions, Len(actions))
          # Last(actions).amount

\* C17: a 'collected $A' action leaves the running pot P as it is and is recorded
\* with pot_after = P and pot_before = P - A; the actions after it go on from P.
C17_CollectKeepsPot ==
    [][\A l \in PotLines :
          (l.kw = "collected" /\ AmountMatches(l) /\ l.name \in RosterNames(players)
           /\ ScanAction(l))
          => /\ pot_size' = pot_size
             /\ OneRecorded
             /\ Last(actions').action_type = "collect"
             /\ Last(actions').amount = l.amt
             /\ Last(actions').pot_after = pot_size
             /\ Last(actions').pot_before = pot_size - l.amt]_vars

\* a payout out of a pot with chips was recorded, and a contribution after it
C17_Witness ==
    \E k \in 1..(Len(actions) - 1) :
        /\ actions[k].action_type = "collect" /\ actions[k].amount > 0
        /\ actions[k].pot_after > 0
        /\ actions[k + 1].action_type \in Contributing /\ actions[k + 1].amount > 0
        /\ actions[k + 1].pot_before = actions[k].pot_after

\* C18: every line 'Uncalled bet $A returned to name' before the summary marker takes
\* A out of the running pot and is recorded as one return ActionStep with amount A,
\* total_bet 0, pot_before = P, pot_after = P - A; the street commitments stay.
C18_UncalledRecorded ==
    [][\A l \in PotLines :
          (l.t = "uncalled" /\ l.amt >= 0 /\ ScanUncalled(l))
          => /\ pot_size' = pot_size - l.amt
             /\ street_bets' = street_bets
             /\ OneRecorded
             /\ Last(actions').action_type = "return"
             /\ Last(actions').amount = l.amt
             /\ Last(actions').total_bet = 0
             /\ Last(actions').pot_before = pot_size
             /\ Last(actions').pot_after = pot_size - l.amt]_vars

\* C19: from the summary marker line on no line of the text produces an ActionStep
\* or changes the running pot, whatever form the line has.
C19_SummaryStopsScan ==
    [][after_summary' # <<>> => (actions' = actions /\ pot_size' = pot_size)]_vars

\* a hand with a pot, and an action line and an uncalled bet line after its summary
\* marker
C19_Witness ==
    /\ pc = "done" /\ Len(actions) >= 1 /\ pot_size > 0
    /\ \E j, k \in 2..Len(after_summary) :
          after_summary[j] = "act" /\ after_summary[k] = "uncalled"

(* ---- street commitments ---- *)
\* action k is the first one its player has on its street
FirstOnStreet(acts, k) ==
    ~ \E j \in 1..(k - 1) : acts[j].player = acts[k].player /\ acts[j].street = acts[k].street

\* C20: after a FLOP, TURN or RIVER marker every player's street commitment is zero;
\* a player's first check or fold on the new street has total_bet 0 and a first
\* 'calls $A' has total_bet A, whatever the player committed on earlier streets.
C20_StreetCommitmentReset ==
    /\ [][\A l \in CommitLines :
            (l.kw \in {"FLOP", "TURN", "RIVER"} /\ ScanMarker(l))
            => \A n \in RosterNames(players) : street_bets'[n] = 0]_vars
    /\ [](\A k \in 1..Len(actions) :
            (actions[k].street \in {"flop", "turn", "river"} /\ FirstOnStreet(actions, k))
            => /\ actions[k].action_type \in {"check", "fold"} => actions[k].total_bet = 0
               /\ actions[k].action_type = "call" =>
                     actions[k].total_bet = actions[k].amount)

\* a player with chips committed before the flop calls on the flop
C20_Witness ==
    \E k \in 2..Len(actions) :
        /\ actions[k].street = "flop" /\ FirstOnStreet(actions, k)
        /\ actions[k].action_type = "call" /\ actions[k].amount > 0
        /\ actions[k].total_bet = actions[k].amount
        /\ actions[k - 1].street = "preflop" /\ actions[k - 1].total_bet > 0
        /\ actions[k - 1].player = actions[k].player
(* ---- C21..C30 ---- *)
\* the board a street marker line leaves, in the words of the street table: the flop
\* marker shows the flop cards, the turn and river markers add their card, a marker
\* line that shows no cards adds none
BoardKnownAfter(board, l) ==
    IF ~l.cards THEN board
    ELSE CASE l.kw = "FLOP"  -> FlopCards
           [] l.kw = "TURN"  -> board \o <<TurnCard>>
           [] l.kw = "RIVER" -> board \o <<RiverCard>>
           [] OTHER          -> board

C22_FreshAccumulator ==
    text.on =>
       LET alone == ParseOf(button_seat, text.lines)
           scan == alone.scan
       IN /\ players = alone.players
          /\ pc = "scan" =>
                /\ scan.pc = "scan"
                /\ <<current_street, pot_size, action_number, current_board,
                      street_bets, total_raise, actions>>
                   = <<scan.current_street, scan.pot_size, scan.action_number,
                       scan.current_board, scan.street_bets, scan.total_raise,
                       scan.actions>>
          /\ pc = "done" =>
                scan.pc = "done" /\ actions = scan.actions /\ final_pot = scan.final_pot
          /\ pc = "failed" => scan.pc = "failed"

\* a hand with two actions is returned by an instance whose first hand failed after
\* it had recorded an action
C22_Witness ==
    /\ text.on /\ pc = "done"
    /\ returned = <<"None", "HandReplay">>
    /\ Len(actions) = 2
    /\ printed = 1

\* C23: in the roster only a player named Hero has cards_visible, and in every
\* snapshot returned every other player has no hole cards and cards_visible false,
\* whatever players the 'Dealt to' lines gave cards to.
C23_OnlyHeroCards ==
    /\ \A i \in 1..Len(players) : players[i].cards_visible => players[i].name = "Hero"
    /\ Returned =>
          \A j \in 1..Len(Snap.players) :
             Snap.players[j].name # "Hero" =>
                Snap.players[j].hole_cards = <<>> /\ ~Snap.players[j].cards_visible

\* the text dealt cards to Hero and to V, and a snapshot after an action is returned
C23_Witness ==
    /\ Returned /\ ctl[1].idx >= 1 /\ Len(actions) >= 1
    /\ \E i, j \in 1..Len(players) :
          /\ players[i].name = "V" /\ players[i].hole_cards = <<"Qs", "Qc">>
          /\ players[j].name = "Hero" /\ players[j].cards_visible
    /\ \E j \in 1..Len(Snap.players) : Snap.players[j].name = "V"

\* C24: a player who is inactive in the snapshot at an index is inactive in the
\* snapshot at every later index, also when the text has the player act after the
\* fold; every fold record has amount 0 and pot_after = pot_before.
C24_FoldIsFinal ==
    /\ Returned =>
          \A n \in 1..Len(Snap.players) :
             ~Snap.players[n].is_active =>
                \A j \in QIndices(actions) :
                   j >= ctl[1].idx =>
                      ~get_state_at_action(players, actions, j).players[n].is_active
    /\ \A k \in 1..Len(actions) :
          actions[k].action_type = "fold" =>
             actions[k].amount = 0 /\ actions[k].pot_after = actions[k].pot_before

\* V has folded with chips in the pot, the snapshot is taken after the fold, and the
\* text has V raise afterwards
C24_Witness ==
    /\ Returned /\ InRange
    /\ \E n \in 1..Len(Snap.players) :
          /\ Snap.players[n].name = "V" /\ ~Snap.players[n].is_active
          /\ \E k \in (ctl[1].idx + 1)..Len(actions) :
                actions[k].player = "V" /\ actions[k].action_type = "raise"
    /\ \E k \in 1..Len(actions) :
          actions[k].action_type = "fold" /\ actions[k].pot_before > 0

\* the texts after the colon that are actions
ActionKeywords ==
    {"posts small blind", "posts big blind", "folds", "checks", "calls", "bets",
     "raises", "collected"}

Skipped(l) == l.t = "act" /\ (l.kw \notin ActionKeywords \/ l.name \notin RosterNames(players))

\* C25: reading a 'name: text' line whose text is no action, or whose name is not in
\* the roster, adds no record and leaves the counter, the pot, the commitments, the
\* street and the board as they were, and the scan goes on with the next line.
C25_SkippedLine ==
    [][\A l \in SkipLines :
          ScanAction(l) /\ Skipped(l) =>
             /\ pc' = "scan"
             /\ UNCHANGED <<actions, action_number, pot_size, street_bets,
                            current_street, current_board>>]_vars

\* Hero bets, two lines are skipped on the flop, and Hero's next bet is recorded as
\* the second action, on the pot the first left
C25_Witness ==
    /\ pc = "scan" /\ Len(actions) = 2 /\ Len(text.lines) >= 4
    /\ \E j \in 1..Len(text.lines) : Skipped(text.lines[j]) /\ text.lines[j].name = "V"
    /\ \E j \in 1..Len(text.lines) : Skipped(text.lines[j]) /\ text.lines[j].name = "Hero"
    /\ text.lines[Len(text.lines)] = Act("Hero", "bets", 1)
    /\ actions[2].action_number = 2
    /\ actions[2].pot_before = actions[1].pot_after

\* C26: when the page is run on another hand than the one it showed, the index it
\* passes to get_state_at_action, and keeps, is 0.
C26_SwitchResetsIndex ==
    [][\A h \in 1..MaxReplays :
          ShowHand(h) /\ ui.shown # 0 => ui'.action_index = 0 /\ ui'.passed = 0]_vars

\* C27: the index passed to get_state_at_action, and the index kept in the session,
\* are between 0 and the number of actions of the hand shown; Previous at index 0 and
\* Next at the last index change nothing.
C27_IndexInRange ==
    /\ [](ui.shown # 0 =>
            /\ 0 <= ui.passed /\ ui.passed <= Shown.n
            /\ ui.action_index = ui.passed)
    /\ [][ButtonPrevious /\ ui.action_index = 0 => ui' = ui]_vars
    /\ [][ButtonNext /\ ui.action_index = Shown.n => ui' = ui]_vars

\* the page shows a shorter hand after a longer one with the same (missing) hand id,
\* at its last index
C27_Witness ==
    /\ ui.shown = 2
    /\ ui.replays[1].hand_id = ui.replays[2].hand_id
    /\ ui.replays[1].n > ui.replays[2].n
    /\ ui.replays[2].n > 0
    /\ ui.passed = ui.replays[2].n

\* C28: between two consecutive records the pot does not move: unless the later one
\* is a collect, its pot_before is the pot_after of the one before it.
C28_PotContinuity ==
    \A k \in 1..(Len(actions) - 1) :
       actions[k + 1].action_type # "collect" =>
          actions[k + 1].pot_before = actions[k].pot_after

\* the stacks of the first n entries of a roster or of a snapshot, added up
RECURSIVE StackSum(_, _)
StackSum(ps, n) == IF n = 0 THEN 0 ELSE StackSum(ps, n - 1) + ps[n].stack

DistinctNames == Cardinality(RosterNames(players)) = Len(players)

\* no collect among the actions applied at index i
BeforeCollect(i) == \A k \in 1..i : actions[k].action_type # "collect"

\* C29: in a hand with distinct player names whose uncalled-bet lines name a seated
\* player, the stacks and the pot of the snapshot at an index add up to the starting
\* stacks, at every index from 0 to the index of the first collect action.
C29_ChipsConserved ==
    (/\ Returned /\ InRange
     /\ DistinctNames /\ "V" \in RosterNames(players)
     /\ BeforeCollect(ctl[1].idx))
    => StackSum(Snap.players, Len(Snap.players)) + Snap.pot
          = StackSum(players, Len(players))

\* a blind, a raise and an uncalled bet returned, seen at the index of the collect
C29_Witness ==
    /\ Returned /\ DistinctNames /\ Len(players) = 2
    /\ ctl[1].idx = 3 /\ Len(actions) = 4
    /\ actions[4].action_type = "collect"
    /\ \E k \in 1..3 : actions[k].action_type = "return"
    /\ \E k \in 1..3 : actions[k].action_type = "raise"
    /\ Snap.pot = 2

\* the amount text of an action line that takes an amount fits no pattern
Unmatched(l) ==
    /\ l.t = "act"
    /\ \/ l.kw \in AmountKinds /\ l.amt = NoMatch
       \/ l.kw = "raises" /\ (l.amt = NoMatch \/ l.to = NoMatch)

\* C30: a blind, call, raise, bet or collect line of a seated player whose amount
\* text fits no pattern is recorded with amount 0, leaves the pot and the commitments
\* as they were, and the scan goes on.
C30_UnmatchedAmountRecorded ==
    [][\A l \in PotLines :
          ScanAction(l) /\ l.name \in RosterNames(players) /\ Unmatched(l) =>
             /\ pc' = "scan"
             /\ OneRecorded
             /\ Last(actions').amount = 0
             /\ pot_size' = pot_size
             /\ street_bets' = street_bets]_vars

====
